---- MODULE Spec2Model ----
(***************************************************************************)
(* Model of collector.py: the Record dataclass, DataCollector (__init__,   *)
(* _load, add_record, _save) and the storage file they read and write.     *)
(* Several DataCollector objects may be built on the one storage path.     *)
(***************************************************************************)
EXTENDS Integers, Sequences, FiniteSets, TLC

\* The number of add_record calls the driver makes, over all collectors.
MaxAdds == 2

\* The DataCollector objects a driver may construct on the storage path.
Collectors == {"A", "B"}

\* The fields of the Record dataclass, in declaration order.
Fields == <<"name", "age", "email", "phone", "notes", "timestamp">>

FieldSet == {Fields[i] : i \in 1..Len(Fields)}

(***************************************************************************)
(* Python values.  A str is a sequence of characters.  A dict is its       *)
(* sequence of <<key, value>> items in insertion order (keys are kept as   *)
(* atomic strings).                                                        *)
(***************************************************************************)
PyInt(n) == [t |-> "int", v |-> n]

PyStr(s) == [t |-> "str", v |-> s]

PyNone == [t |-> "none", v |-> 0]

PyList(xs) == [t |-> "list", v |-> xs]

PyDict(items) == [t |-> "dict", v |-> items]

(***************************************************************************)
(* JSON documents: the syntax tree of a JSON text.                         *)
(***************************************************************************)
JNum(n) == [t |-> "number", v |-> n]

JString(s) == [t |-> "string", v |-> s]

JNull == [t |-> "null", v |-> 0]

JArray(xs) == [t |-> "array", v |-> xs]

JObject(members) == [t |-> "object", v |-> members]

(***************************************************************************)
(* The storage file: absent, or holding bytes.  Bytes are either not       *)
(* decodable as UTF-8 ("binary"), or UTF-8 text that is no JSON document   *)
(* ("text", which covers the empty and the truncated file), or UTF-8 text  *)
(* that is the JSON document doc ("json").                                 *)
(***************************************************************************)
Absent == [k |-> "absent", doc |-> JNull]

Binary == [k |-> "binary", doc |-> JNull]

NotJson == [k |-> "text", doc |-> JNull]

JsonFile(doc) == [k |-> "json", doc |-> doc]

\* Results of calls: a value, or the exception that propagates.
Return(x) == [exc |-> "none", val |-> x]

Raise(e) == [exc |-> e, val |-> PyNone]

\* json.dumps(obj, ensure_ascii=False, indent=2): the document of a value.
RECURSIVE JsonDumps(_)
JsonDumps(x) ==
    CASE x.t = "int"  -> JNum(x.v)
      [] x.t = "str"  -> JString(x.v)
      [] x.t = "none" -> JNull
      [] x.t = "list" -> JArray([i \in 1..Len(x.v) |-> JsonDumps(x.v[i])])
      [] x.t = "dict" ->
            JObject([i \in 1..Len(x.v) |-> <<x.v[i][1], JsonDumps(x.v[i][2])>>])

\* The indexes of the members of an object that introduce a new name.
FirstIdx(ms) ==
    SelectSeq([i \in 1..Len(ms) |-> i],
              LAMBDA i : \A j \in 1..(i - 1) : ms[j][1] # ms[i][1])

\* The value of the last member of an object named k.
LastVal(ms, k) ==
    ms[CHOOSE i \in 1..Len(ms) :
            /\ ms[i][1] = k
            /\ \A j \in (i + 1)..Len(ms) : ms[j][1] # k][2]

\* The value a JSON document decodes to.  A name repeated in an object keeps
\* its first position and takes its last value, as a dict does.
RECURSIVE Decode(_)
Decode(d) ==
    CASE d.t = "number" -> PyInt(d.v)
      [] d.t = "string" -> PyStr(d.v)
      [] d.t = "null"   -> PyNone
      [] d.t = "array"  -> PyList([i \in 1..Len(d.v) |-> Decode(d.v[i])])
      [] d.t = "object" ->
            LET fi == FirstIdx(d.v)
            IN  PyDict([n \in 1..Len(fi) |->
                    <<d.v[fi[n]][1], Decode(LastVal(d.v, d.v[fi[n]][1]))>>])

\* Mutant of Exists: the existence test is missing.
ExistsAlways(f) == TRUE

\* Path.exists()
Exists(f) == f.k # "absent"

\* Path.read_text(encoding="utf-8"): strict decoding of the file's bytes.
ReadText(f) ==
    CASE f.k = "absent" -> Raise("FileNotFoundError")
      [] f.k = "binary" -> Raise("UnicodeDecodeError")
      [] OTHER          -> Return(f)

\* json.loads(text)
JsonLoads(text) ==
    IF text.k = "json" THEN Return(Decode(text.doc))
    ELSE Raise("JSONDecodeError")

(***************************************************************************)
(* Record                                                                  *)
(***************************************************************************)
\* The names of the items of a dict.
Keys(item) == {item.v[i][1] : i \in 1..Len(item.v)}

\* The value of item k of a dict.
Get(item, k) == item.v[CHOOSE i \in 1..Len(item.v) : item.v[i][1] = k][2]

\* Whether Record(**item) binds: item is a mapping and its names are exactly
\* the six fields (no field has a default, no other keyword is accepted).
Binds(item) == item.t = "dict" /\ Keys(item) = FieldSet

\* Mutant of MakeRecord: the stored timestamp is not restored.
MakeRecordNoStamp(item) ==
    [name      |-> Get(item, "name"),
     age       |-> Get(item, "age"),
     email     |-> Get(item, "email"),
     phone     |-> Get(item, "phone"),
     notes     |-> Get(item, "notes"),
     timestamp |-> PyStr(<<>>)]

\* Record(**item), for an item that binds.
MakeRecord(item) ==
    [name      |-> Get(item, "name"),
     age       |-> Get(item, "age"),
     email     |-> Get(item, "email"),
     phone     |-> Get(item, "phone"),
     notes     |-> Get(item, "notes"),
     timestamp |-> Get(item, "timestamp")]

\* dataclasses.asdict(record): the fields in declaration order.
AsDict(r) ==
    PyDict(<< <<"name", r.name>>, <<"age", r.age>>, <<"email", r.email>>,
              <<"phone", r.phone>>, <<"notes", r.notes>>,
              <<"timestamp", r.timestamp>> >>)

\* Whether `for item in data` can iterate data.
Iterable(data) == data.t \in {"list", "dict", "str"}

\* The items `for item in data` yields: the elements of a list, the keys of a
\* dict, the characters of a str.
Iterate(data) ==
    CASE data.t = "list" -> data.v
      [] data.t = "dict" -> [i \in 1..Len(data.v) |-> PyStr(<<data.v[i][1]>>)]
      [] data.t = "str"  -> [i \in 1..Len(data.v) |-> PyStr(<<data.v[i]>>)]

\* Mutant of BuildRecords: items that do not bind are skipped.
BuildRecordsSkipping(data) ==
    IF ~Iterable(data) THEN Raise("TypeError")
    ELSE LET items == SelectSeq(Iterate(data), Binds)
         IN  Return([i \in 1..Len(items) |-> MakeRecord(items[i])])

\* [Record(**item) for item in data]
BuildRecords(data) ==
    IF ~Iterable(data) THEN Raise("TypeError")
    ELSE LET items == Iterate(data)
         IN  IF \E i \in 1..Len(items) : ~Binds(items[i])
             THEN Raise("TypeError")
             ELSE Return([i \in 1..Len(items) |-> MakeRecord(items[i])])

(***************************************************************************)
(* DataCollector                                                           *)
(***************************************************************************)
\* Mutant of Load: json.JSONDecodeError is not caught.
LoadStrict(f) ==
    IF ~Exists(f) THEN Return(<<>>)
    ELSE LET txt == ReadText(f)
         IN  IF txt.exc # "none" THEN Raise(txt.exc)
             ELSE LET data == JsonLoads(txt.val)
                  IN  IF data.exc # "none" THEN Raise(data.exc)
                      ELSE BuildRecords(data.val)

\* DataCollector._load on storage file f.  Only json.JSONDecodeError is caught.
Load(f) ==
    IF ~Exists(f) THEN Return(<<>>)
    ELSE LET txt == ReadText(f)
         IN  IF txt.exc # "none" THEN Raise(txt.exc)
             ELSE LET data == JsonLoads(txt.val)
                  IN  IF data.exc = "JSONDecodeError" THEN Return(<<>>)
                      ELSE BuildRecords(data.val)

\* The text _save writes for the list recs.
SaveText(recs) ==
    JsonFile(JsonDumps(PyList([i \in 1..Len(recs) |-> AsDict(recs[i])])))

\* Mutant of WriteText: the file is opened with mode="a".
WriteTextAppendMode(f, text, io) ==
    CASE io = "ok" ->
            [exc |-> "none", writes |-> 1,
             file |-> IF f.k = "absent" THEN text ELSE NotJson]
      [] io = "open_fail"  -> [exc |-> "OSError", file |-> f, writes |-> 1]
      [] io = "write_fail" -> [exc |-> "OSError", file |-> f, writes |-> 1]

\* Path.write_text(text, encoding="utf-8") on file f: open(mode="w"), write,
\* close.  io is what the file system does: "ok"; "open_fail", open raises and
\* the file is untouched; "write_fail", the file was truncated by open and the
\* write or the close raises, leaving part of the text.
WriteText(f, text, io) ==
    CASE io = "ok"         -> [exc |-> "none", file |-> text, writes |-> 1]
      [] io = "open_fail"  -> [exc |-> "OSError", file |-> f, writes |-> 1]
      [] io = "write_fail" -> [exc |-> "OSError", file |-> NotJson, writes |-> 1]

\* DataCollector._save
Save(f, recs, io) == WriteText(f, SaveText(recs), io)

\* The Record add_record builds from its keyword arguments a at time ts.
NewRecord(a, ts) ==
    [name |-> a.name, age |-> a.age, email |-> a.email, phone |-> a.phone,
     notes |-> a.notes, timestamp |-> ts]

\* Mutant of AppendRecord: a record whose five collected fields are already
\* held is not added again.
AppendUnique(recs, record) ==
    IF \E i \in 1..Len(recs) :
          /\ recs[i].name = record.name
          /\ recs[i].age = record.age
          /\ recs[i].email = record.email
          /\ recs[i].phone = record.phone
          /\ recs[i].notes = record.notes
    THEN recs
    ELSE Append(recs, record)

\* Mutant of AppendRecord: the record is put at the head of the list.
PrependRecord(recs, record) == <<record>> \o recs

\* self.records.append(record)
AppendRecord(recs, record) == Append(recs, record)

\* Mutant of AddOutcome: the exception of _save is swallowed.
AddOutcomeSwallow(record, sv) == [exc |-> "none", ret |-> <<record>>]

\* What add_record hands to its caller once _save has run with result sv:
\* the record, or the exception _save raised.
AddOutcome(record, sv) ==
    IF sv.exc = "none" THEN [exc |-> "none", ret |-> <<record>>]
    ELSE [exc |-> sv.exc, ret |-> <<>>]

(***************************************************************************)
(* The driver: the files the storage path may hold when the program        *)
(* starts, the arguments it passes and the times the clock shows.          *)
(***************************************************************************)
GoodMembers ==
    << <<"name", JString(<<"x">>)>>, <<"age", JNum(41)>>,
       <<"email", JString(<<"e">>)>>, <<"phone", JString(<<"0">>)>>,
       <<"notes", JString(<<>>)>>, <<"timestamp", JString(<<"0">>)>> >>

\* An object with the six fields.
GoodObj == JObject(GoodMembers)

\* An object that lacks five of the fields.
ShortObj == JObject(<< <<"name", JString(<<"x">>)>> >>)

\* An object with a field outside the six.
ExtraObj == JObject(GoodMembers \o << <<"extra", JNum(1)>> >>)

\* The six fields in another order, with values of other types.
OddObj ==
    JObject(<< <<"timestamp", JNum(3)>>, <<"notes", JObject(<<>>)>>,
               <<"phone", JArray(<<JNull>>)>>, <<"email", JNull>>,
               <<"age", JString(<<"7">>)>>, <<"name", JString(<<"x">>)>> >>)

\* The six fields, one of them given twice.
DupObj == JObject(GoodMembers \o << <<"name", JString(<<"y">>)>> >>)

InitDocs ==
    { JArray(<<>>), JObject(<<>>), JString(<<>>), JString(<<"a", "b">>),
      JNum(5), JNull, JObject(<< <<"a", JNum(1)>> >>),
      JArray(<<JNum(5)>>), JArray(<<ShortObj>>), JArray(<<ExtraObj>>),
      JArray(<<GoodObj>>), JArray(<<OddObj>>), JArray(<<DupObj>>),
      JArray(<<GoodObj, ShortObj>>), JArray(<<ExtraObj, GoodObj>>) }

InitFiles == {Absent, Binary, NotJson} \cup {JsonFile(d) : d \in InitDocs}

\* Keyword arguments of add_record (the caller has validated them).
Args ==
    { [name |-> PyStr(<<"a">>), age |-> PyInt(30), email |-> PyStr(<<"e">>),
       phone |-> PyStr(<<"0">>), notes |-> PyStr(<<>>)],
      [name |-> PyStr(<<"b">>), age |-> PyInt(7), email |-> PyStr(<<"f">>),
       phone |-> PyStr(<<"1">>), notes |-> PyStr(<<"n">>)] }

\* datetime.now().isoformat(timespec="seconds"): the local clock's second,
\* which may repeat or step back between two calls.
Timestamps == {PyStr(<<"1">>), PyStr(<<"2">>)}

IOs == {"ok", "open_fail", "write_fail"}

(***************************************************************************)
(* State                                                                   *)
(***************************************************************************)
VARIABLES
    file,    \* the content of storage_path
    obj,     \* per collector: st ("unborn", "live", or "failed" when its
             \* construction raised) and self.records
    seen,    \* history: the file each collector's construction found
    loaded,  \* history: the records each collector's _load returned
    calls,   \* history: the add_record calls made on each collector
    last     \* history: the latest operation, the file before it, its result

vars == <<file, obj, seen, loaded, calls, last>>

Init ==
    /\ file \in InitFiles
    /\ obj = [c \in Collectors |-> [st |-> "unborn", records |-> <<>>]]
    /\ seen = [c \in Collectors |-> Absent]
    /\ loaded = [c \in Collectors |-> <<>>]
    /\ calls = [c \in Collectors |-> <<>>]
    /\ last = [op |-> "start", c |-> "", exc |-> "none", ret |-> <<>>,
               pre |-> file, io |-> "ok", writes |-> 0]

\* c = DataCollector(storage_path)
Construct(c) ==
    /\ obj[c].st = "unborn"
    /\ LET r == Load(file)
       IN  /\ obj' = [obj EXCEPT ![c] =
                        IF r.exc = "none"
                        THEN [st |-> "live", records |-> r.val]
                        ELSE [st |-> "failed", records |-> <<>>]]
           /\ loaded' = [loaded EXCEPT ![c] =
                           IF r.exc = "none" THEN r.val ELSE <<>>]
           /\ last' = [op |-> "construct", c |-> c, exc |-> r.exc,
                       ret |-> <<>>, pre |-> file, io |-> "ok", writes |-> 0]
    /\ seen' = [seen EXCEPT ![c] = file]
    /\ UNCHANGED <<file, calls>>

\* The number of add_record calls made so far.
AddCalls == Len(calls["A"]) + Len(calls["B"])

\* c.add_record(**a) at clock reading ts, the file system behaving as io
AddRecord(c, a, ts, io) ==
    /\ obj[c].st = "live"
    /\ AddCalls < MaxAdds
    /\ LET record == NewRecord(a, ts)
           recs   == AppendRecord(obj[c].records, record)
           sv     == Save(file, recs, io)
           out    == AddOutcome(record, sv)
       IN  /\ obj' = [obj EXCEPT ![c].records = recs]
           /\ file' = sv.file
           /\ calls' = [calls EXCEPT ![c] =
                          Append(@, [args |-> a, ok |-> out.exc = "none"])]
           /\ last' = [op |-> "add", c |-> c, exc |-> out.exc,
                       ret |-> out.ret, pre |-> file, io |-> io,
                       writes |-> sv.writes]
    /\ UNCHANGED <<seen, loaded>>

Next ==
    \/ \E c \in Collectors : Construct(c)
    \/ \E c \in Collectors, a \in Args, ts \in Timestamps, io \in IOs :
          AddRecord(c, a, ts, io)

Spec == Init /\ [][Next]_vars

(***************************************************************************)
(* Properties                                                              *)
(***************************************************************************)
Live(c) == obj[c].st = "live"

Built(c) == obj[c].st # "unborn"

IsPrefix(s, t) == Len(s) <= Len(t) /\ SubSeq(t, 1, Len(s)) = s

\* Every add_record call made on c returned.
AllOk(c) == \A i \in 1..Len(calls[c]) : calls[c][i].ok

\* The number of add_record calls on c that returned.
OkCount(c) == Cardinality({i \in 1..Len(calls[c]) : calls[c][i].ok})

\* The member names of a JSON object.
Names(o) == {o.v[i][1] : i \in 1..Len(o.v)}

\* r carries the five arguments a.
Carries(r, a) ==
    /\ r.name = a.name
    /\ r.age = a.age
    /\ r.email = a.email
    /\ r.phone = a.phone
    /\ r.notes = a.notes

\* C1: from an absent file, after add_record calls on c that all succeeded
\* (and none on another collector), loading the file gives exactly c.records,
\* same length, same order, every field including the timestamp, and so does
\* any collector constructed on the file as it now is.
RoundTrip ==
    \A c \in Collectors :
        ( /\ Live(c)
          /\ seen[c] = Absent
          /\ Len(calls[c]) > 0
          /\ AllOk(c)
          /\ \A d \in Collectors \ {c} : calls[d] = <<>> )
        => /\ Load(file) = Return(obj[c].records)
           /\ \A d \in Collectors \ {c} :
                 (Built(d) /\ seen[d] = file)
                 => (Live(d) /\ obj[d].records = obj[c].records)

RoundTripWitness ==
    \E c \in Collectors, d \in Collectors :
        /\ c # d
        /\ Live(c) /\ seen[c] = Absent /\ AllOk(c)
        /\ Len(calls[c]) = 2
        /\ obj[c].records[1].timestamp # obj[c].records[2].timestamp
        /\ last.op = "construct" /\ last.c = d
        /\ Live(d) /\ seen[d] = file
        /\ obj[d].records = obj[c].records

\* C2: a collector constructed on absent storage holds one record per
\* add_record call, the i-th carrying the i-th call's arguments; equal
\* argument tuples give separate elements.
AppendOnlyGrowth ==
    \A c \in Collectors :
        (Live(c) /\ seen[c] = Absent)
        => /\ Len(obj[c].records) = Len(calls[c])
           /\ \A i \in 1..Len(calls[c]) :
                 Carries(obj[c].records[i], calls[c][i].args)

AppendOnlyGrowthWitness ==
    \E c \in Collectors :
        /\ Live(c) /\ seen[c] = Absent
        /\ Len(calls[c]) = 2
        /\ calls[c][1].args = calls[c][2].args
        /\ Len(obj[c].records) = 2
        /\ obj[c].records[1] = obj[c].records[2]

\* C3: construction on an absent file gives empty records, raises nothing and
\* leaves the file absent; the file stays absent while no add_record call has
\* been made, only add_record makes it exist, and it exists once add_record
\* has returned.
MissingFile ==
    /\ \A c \in Collectors :
          (Built(c) /\ seen[c] = Absent) => (Live(c) /\ loaded[c] = <<>>)
    /\ (last.op = "construct" /\ last.pre = Absent)
          => (last.exc = "none" /\ file = Absent
              /\ obj[last.c].records = <<>>)
    /\ (AddCalls = 0 /\ last.pre = Absent) => file = Absent
    /\ (last.pre = Absent /\ file # Absent) => last.op = "add"
    /\ (last.op = "add" /\ last.exc = "none") => file # Absent

MissingFileWitness ==
    /\ last.op = "add" /\ last.exc = "none"
    /\ last.pre = Absent /\ file # Absent
    /\ seen[last.c] = Absent
    /\ Len(calls[last.c]) = 1

\* C4: construction on a file whose content is not valid JSON gives empty
\* records, raises nothing and leaves the content as it was.
CorruptFileTolerated ==
    /\ \A c \in Collectors :
          (Built(c) /\ seen[c].k \in {"binary", "text"})
          => (Live(c) /\ loaded[c] = <<>>)
    /\ (last.op = "construct" /\ last.pre.k \in {"binary", "text"})
          => (last.exc = "none" /\ file = last.pre)

\* The file holds a JSON array with an object among its elements whose names
\* are not exactly the six fields.
HasBadMapping(f) ==
    /\ f.k = "json"
    /\ f.doc.t = "array"
    /\ \E i \in 1..Len(f.doc.v) :
          f.doc.v[i].t = "object" /\ Names(f.doc.v[i]) # FieldSet

\* C5: construction on a JSON array holding, at any position, a mapping that
\* lacks a field or carries another one raises (TypeError) and produces no
\* collector.
ShapeMismatchFails ==
    /\ \A c \in Collectors :
          (Built(c) /\ HasBadMapping(seen[c])) => obj[c].st = "failed"
    /\ (last.op = "construct" /\ HasBadMapping(last.pre))
          => last.exc = "TypeError"

ShapeMismatchWitness ==
    /\ last.op = "construct"
    /\ last.pre = JsonFile(JArray(<<GoodObj, ShortObj>>))
    /\ obj[last.c].st = "failed"
    /\ last.exc = "TypeError"

\* C6 as stated: whatever the storage holds, construction raises nothing.
ConstructionNeverRaises ==
    /\ \A c \in Collectors : obj[c].st # "failed"
    /\ last.op = "construct" => last.exc = "none"

\* The JSON document iterates to objects that each have exactly the six
\* fields: an array of such objects, an empty object or an empty string.
WellShaped(doc) ==
    CASE doc.t = "array" ->
            \A i \in 1..Len(doc.v) :
                doc.v[i].t = "object" /\ Names(doc.v[i]) = FieldSet
      [] doc.t \in {"object", "string"} -> doc.v = <<>>
      [] OTHER -> FALSE

\* C6 amended: construction raises exactly when the content is not UTF-8
\* text or is valid JSON that does not iterate to six-field mappings; on an
\* absent file and on text that is not valid JSON it completes with empty
\* records.
ConstructionRaisesOnlyOnShape ==
    \A c \in Collectors :
        Built(c) =>
            /\ obj[c].st = "failed"
                  <=> \/ seen[c].k = "binary"
                      \/ seen[c].k = "json" /\ ~WellShaped(seen[c].doc)
            /\ seen[c].k \in {"absent", "text"} => loaded[c] = <<>>

ConstructionWitness ==
    /\ last.op = "construct"
    /\ last.pre = JsonFile(JObject(<< <<"a", JNum(1)>> >>))
    /\ last.exc = "TypeError"
    /\ obj[last.c].st = "failed"
    /\ \E d \in Collectors : obj[d].st = "unborn"

\* C7: when the write fails during add_record, add_record returns no Record,
\* the OSError reaches the caller, and the write was attempted once: the file
\* is as it was or is left truncated.
SaveFailureSurfaced ==
    (last.op = "add" /\ last.io # "ok")
    => /\ last.exc = "OSError"
       /\ last.ret = <<>>
       /\ last.writes = 1
       /\ file \in {last.pre, NotJson}

SaveFailureWitness ==
    /\ last.op = "add" /\ last.io = "write_fail"
    /\ last.exc = "OSError" /\ last.pre.k = "json"

\* C8: records holds what construction loaded plus one record per add_record
\* call that returned, and nothing else.
GrowsOnlyOnSuccess ==
    \A c \in Collectors :
        Live(c) => Len(obj[c].records) = Len(loaded[c]) + OkCount(c)

\* C9: an add_record call on c keeps c.records as a prefix of the new list,
\* and when it returns the array in the store has those records as a prefix.
NoRemovalOrEdit ==
    [][\A c \in Collectors :
          Len(calls'[c]) = Len(calls[c]) + 1
          => /\ IsPrefix(obj[c].records, obj'[c].records)
             /\ last'.exc = "none"
                   => /\ Load(file').exc = "none"
                      /\ IsPrefix(obj[c].records, Load(file').val)]_vars

NoRemovalWitness ==
    /\ last.op = "add" /\ last.exc = "none"
    /\ Len(obj[last.c].records) = 2
    /\ obj[last.c].records[1] # obj[last.c].records[2]
    /\ Load(file) = Return(obj[last.c].records)

\* C10: once add_record on c has returned, the store is the serialization of
\* c.records and nothing else, whatever it held before the call.
FullOverwrite ==
    (last.op = "add" /\ last.exc = "none")
    => /\ file = SaveText(obj[last.c].records)
       /\ Load(file) = Return(obj[last.c].records)

\* B saved a record after A was constructed; A's add_record then returned and
\* the store no longer has B's record.
LostUpdateWitness ==
    /\ last.op = "add" /\ last.exc = "none" /\ last.c = "A"
    /\ seen["A"] = NotJson /\ loaded["A"] = <<>>
    /\ Len(obj["B"].records) = 1 /\ AllOk("B")
    /\ last.pre = SaveText(obj["B"].records)
    /\ Len(obj["A"].records) = 1
    /\ obj["A"].records[1] # obj["B"].records[1]
    /\ file.doc.v = <<JsonDumps(AsDict(obj["A"].records[1]))>>
====
